---- MODULE Spec2Model ----
(***************************************************************************)
(* Model of the full precision encoder of the Animation Compression        *)
(* Library: includes/acl/algorithm/uniformly_sampled/encoder.h.            *)
(*                                                                         *)
(* One behaviour is one call of compress_clip on one clip.  Byte counts    *)
(* that are uint32_t in the source and can become large (num_samples,      *)
(* animated_data_size, buffer_size) are kept as exact numbers written in   *)
(* three 16-bit limbs <<top, hi, lo>>; a uint32_t is such a number with    *)
(* top = 0 and Trunc32 is the reduction modulo 2^32.  A float is modelled   *)
(* by an integer: a sample is 0.0f, or 2.0f outside the quantizer range.   *)
(***************************************************************************)
EXTENDS Integers, Sequences, FiniteSets, TLC

\* ---------------------------------------------------------------- bounds
MaxBones == 2
MaxSamples == 2
LongBones == 17
\* the animated writer's sample loop is explored for this many iterations:
\* enough for every sample count of 0..MaxSamples to run to its end
MaxLoopSamples == MaxSamples

\* ----------------------------------------------- wide (limb) arithmetic
Limb == 2^16

WFromNat(n) == <<0, n \div Limb, n % Limb>>

WNorm(t, h, l) ==
    LET h2 == h + (l \div Limb)
    IN  <<t + (h2 \div Limb), h2 % Limb, l % Limb>>

WAdd(a, b) == WNorm(a[1] + b[1], a[2] + b[2], a[3] + b[3])

\* k * w for a factor k < 2^15
WMulNat(k, w) == WNorm(k * w[1], k * w[2], k * w[3])

WLeq(a, b) ==
    \/ a[1] < b[1]
    \/ a[1] = b[1] /\ a[2] < b[2]
    \/ a[1] = b[1] /\ a[2] = b[2] /\ a[3] <= b[3]

\* the value kept by a uint32_t
Trunc32(w) == <<0, w[2], w[3]>>

U32Add(a, b) == Trunc32(WAdd(a, b))
U32Mul(k, w) == Trunc32(WMulNat(k, w))

\* ------------------------------------------------------- external types
TagSize == 16
HeaderSize == 36
WordBytes == 4
NUM_TRACKS_PER_BONE == 2
BITSET_WIDTH == 32

RotationFormat8 == {"Quat_128", "Quat_96", "Quat_48", "Quat_32"}
VectorFormat8 == {"Vector3_96", "Vector3_48"}

get_rotation_size(format) ==
    CASE format = "Quat_128" -> 16
      [] format = "Quat_96" -> 12
      [] format = "Quat_48" -> 6
      [] format = "Quat_32" -> 4

get_translation_size(format) ==
    CASE format = "Vector3_96" -> 12
      [] format = "Vector3_48" -> 6

align_to(value, alignment) == ((value + (alignment - 1)) \div alignment) * alignment

\* AnimatedTrack: the three predicates are mutually exclusive and exhaustive
TrackClass == {"default", "constant", "animated"}
is_default(track) == track = "default"
is_constant(track) == track = "constant"
is_animated(track) == track = "animated"

AnimatedBone == [rotation_track : TrackClass, translation_track : TrackClass]

\* reading a sample: every component of every sample of the clip's bad bone
\* (bad is its index + 1, or 0 when the clip has none) is 2.0f, every other
\* component is 0.0f
get_sample(c, index) == IF c.bad = index + 1 THEN 2 ELSE 0

\* ----------------------------------------------------------- the inputs
SampleCounts ==
    {WFromNat(n) : n \in 0..MaxSamples} \cup {<<0, 2^15, 0>>, <<0, 2^16 - 1, 2^16 - 1>>}

SmallClips ==
    UNION {[bones : [0..(n - 1) -> AnimatedBone], num_samples : SampleCounts, bad : {0, n}]
             : n \in 0..MaxBones}

ClassCycle == <<"default", "constant", "animated">>

LongClips ==
    {[bones |-> [i \in 0..(LongBones - 1) |->
                    [rotation_track |-> ClassCycle[((i + k) % 3) + 1],
                     translation_track |-> ClassCycle[((i + k + 1) % 3) + 1]]],
      num_samples |-> n, bad |-> 0] : k \in 0..2, n \in SampleCounts}

Clips == SmallClips \cup LongClips

get_num_bones(c) == Cardinality(DOMAIN c.bones)

\* ------------------------------------------------------------ the state
VARIABLES clip, rotation_format, translation_format, pc, plan, header,
          default_tracks_bitset, constant_tracks_bitset,
          constant_data, animated_data, cursor, bone_index, sample_index,
          violation, finalized

vars == <<clip, rotation_format, translation_format, pc, plan, header,
          default_tracks_bitset, constant_tracks_bitset,
          constant_data, animated_data, cursor, bone_index, sample_index,
          violation, finalized>>

inputs == <<clip, rotation_format, translation_format>>

\* -------------------------------------------------------- the classifier
NoCounts ==
    [num_constant_rotation_tracks |-> 0, num_constant_translation_tracks |-> 0,
     num_animated_rotation_tracks |-> 0, num_animated_translation_tracks |-> 0]

CountBone(acc, bone) ==
    LET r == IF ~is_default(bone.rotation_track)
             THEN IF is_constant(bone.rotation_track)
                  THEN [acc EXCEPT !.num_constant_rotation_tracks = @ + 1]
                  ELSE [acc EXCEPT !.num_animated_rotation_tracks = @ + 1]
             ELSE acc
    IN  IF ~is_default(bone.translation_track)
        THEN IF is_constant(bone.translation_track)
             THEN [r EXCEPT !.num_constant_translation_tracks = @ + 1]
             ELSE [r EXCEPT !.num_animated_translation_tracks = @ + 1]
        ELSE r

\* the classifier with the is_default tests left out
CountBone_no_default(acc, bone) ==
    LET r == IF is_constant(bone.rotation_track)
             THEN [acc EXCEPT !.num_constant_rotation_tracks = @ + 1]
             ELSE [acc EXCEPT !.num_animated_rotation_tracks = @ + 1]
    IN  IF is_constant(bone.translation_track)
        THEN [r EXCEPT !.num_constant_translation_tracks = @ + 1]
        ELSE [r EXCEPT !.num_animated_translation_tracks = @ + 1]

RECURSIVE CountLoop(_, _, _)
CountLoop(c, index, acc) ==
    IF index < get_num_bones(c)
    THEN CountLoop(c, index + 1, CountBone(acc, c.bones[index]))
    ELSE acc

RECURSIVE CountLoop_no_default(_, _, _)
CountLoop_no_default(c, index, acc) ==
    IF index < get_num_bones(c)
    THEN CountLoop_no_default(c, index + 1, CountBone_no_default(acc, c.bones[index]))
    ELSE acc

get_num_animated_tracks_no_default(c) == CountLoop_no_default(c, 0, NoCounts)

get_num_animated_tracks(c) == CountLoop(c, 0, NoCounts)

\* -------------------------------------------------------------- bitsets
\* a bitset is a function from word index to the set of bits set in the word
BitsetWords(size) == 0..(size - 1)

bitset_reset(bitset, size, value) ==
    [w \in BitsetWords(size) |-> IF value THEN 0..(BITSET_WIDTH - 1) ELSE {}]

bitset_set(bitset, size, offset, value) ==
    LET w == offset \div BITSET_WIDTH
        b == offset % BITSET_WIDTH
    IN  [bitset EXCEPT ![w] = IF value THEN @ \cup {b} ELSE @ \ {b}]

bitset_test(bitset, offset) ==
    (offset % BITSET_WIDTH) \in bitset[offset \div BITSET_WIDTH]

RECURSIVE DefaultBitsetLoop(_, _, _, _)
DefaultBitsetLoop(bitset, c, bitset_size, index) ==
    IF index < get_num_bones(c)
    THEN LET bone == c.bones[index]
             b1 == bitset_set(bitset, bitset_size, NUM_TRACKS_PER_BONE * index,
                              is_default(bone.rotation_track))
             b2 == bitset_set(b1, bitset_size, NUM_TRACKS_PER_BONE * index + 1,
                              is_default(bone.translation_track))
         IN  DefaultBitsetLoop(b2, c, bitset_size, index + 1)
    ELSE bitset

RECURSIVE ConstantBitsetLoop(_, _, _, _)
ConstantBitsetLoop(bitset, c, bitset_size, index) ==
    IF index < get_num_bones(c)
    THEN LET bone == c.bones[index]
             b1 == bitset_set(bitset, bitset_size, NUM_TRACKS_PER_BONE * index,
                              is_constant(bone.rotation_track))
             b2 == bitset_set(b1, bitset_size, NUM_TRACKS_PER_BONE * index + 1,
                              is_constant(bone.translation_track))
         IN  ConstantBitsetLoop(b2, c, bitset_size, index + 1)
    ELSE bitset

\* the writer with the bitset_reset call left out
write_default_track_bitset_no_reset(bitset, c, bitset_size) ==
    DefaultBitsetLoop(bitset, c, bitset_size, 0)

write_default_track_bitset(bitset, c, bitset_size) ==
    DefaultBitsetLoop(bitset_reset(bitset, bitset_size, FALSE), c, bitset_size, 0)

\* the writer testing is_default where it should test is_constant
write_constant_track_bitset_wrong_predicate(bitset, c, bitset_size) ==
    DefaultBitsetLoop(bitset_reset(bitset, bitset_size, FALSE), c, bitset_size, 0)

write_constant_track_bitset(bitset, c, bitset_size) ==
    ConstantBitsetLoop(bitset_reset(bitset, bitset_size, FALSE), c, bitset_size, 0)

\* ------------------------------------------------------------ quantizer
\* A float is modelled by an integer.  quantize_unsigned_normalized takes
\* twice its input, so that (input * 0.5f) + 0.5f is the integer input + 1.
quantize_unsigned_normalized(input2, num_bits) ==
    LET max_value == (2^num_bits) - 1
    IN  [ok |-> input2 >= 0 /\ input2 <= 2,
         value |-> ((input2 * max_value) + 1) \div 2]

\* the quantizer with both range checks compiled out
quantize_signed_normalized_unchecked(input, num_bits) ==
    [quantize_unsigned_normalized(input + 1, num_bits) EXCEPT !.ok = TRUE]

quantize_signed_normalized(input, num_bits) ==
    IF input >= -1 /\ input <= 1
    THEN quantize_unsigned_normalized(input + 1, num_bits)
    ELSE [ok |-> FALSE, value |-> 0]

\* -------------------------------------------------------- format packer
\* [ok, data, cursor]: ok is FALSE when a range check of the quantizer fails
write_rotation(format, rotation, out_rotation_data) ==
    LET x16 == quantize_signed_normalized(rotation, 16)
        x11 == quantize_signed_normalized(rotation, 11)
        z10 == quantize_signed_normalized(rotation, 10)
        next == out_rotation_data + get_rotation_size(format)
    IN  CASE format = "Quat_128" ->
               [ok |-> TRUE, data |-> <<rotation, rotation, rotation, rotation>>, cursor |-> next]
          [] format = "Quat_96" ->
               [ok |-> TRUE, data |-> <<rotation, rotation, rotation>>, cursor |-> next]
          [] format = "Quat_48" ->
               [ok |-> x16.ok, data |-> <<x16.value, x16.value, x16.value>>, cursor |-> next]
          [] format = "Quat_32" ->
               \* the two 16-bit halves of (x << 21) | (y << 10) | z
               [ok |-> x11.ok /\ z10.ok,
                data |-> <<(x11.value * 32) + (x11.value \div 64),
                           ((x11.value % 64) * 1024) + z10.value>>,
                cursor |-> next]

write_translation(format, translation, out_translation_data) ==
    LET x16 == quantize_signed_normalized(translation, 16)
        next == out_translation_data + get_translation_size(format)
    IN  CASE format = "Vector3_96" ->
               [ok |-> TRUE, data |-> <<translation, translation, translation>>, cursor |-> next]
          [] format = "Vector3_48" ->
               [ok |-> x16.ok, data |-> <<x16.value, x16.value, x16.value>>, cursor |-> next]

Entry(kind, index, sample, offset, w) ==
    [kind |-> kind, bone |-> index, sample |-> sample, offset |-> offset,
     size |-> w.cursor - offset, data |-> w.data]

\* One bone of write_constant_track_data, up to the overrun check:
\* [ok, entries, cursor]; when ok is FALSE the encode stopped in the quantizer.
ConstantBoneBody(c, hdr, index, cur) ==
    LET bone == c.bones[index]
        rot == ~is_default(bone.rotation_track) /\ is_constant(bone.rotation_track)
        tra == ~is_default(bone.translation_track) /\ is_constant(bone.translation_track)
        r == write_rotation(hdr.rotation_format, get_sample(c, index), cur)
        e1 == IF rot THEN <<Entry("rotation", index, 0, cur, r)>> ELSE <<>>
        c1 == IF rot THEN r.cursor ELSE cur
        t == write_translation(hdr.translation_format, get_sample(c, index), c1)
    IN  IF rot /\ ~r.ok THEN [ok |-> FALSE, entries |-> <<>>, cursor |-> cur]
        ELSE IF tra /\ ~t.ok THEN [ok |-> FALSE, entries |-> e1, cursor |-> c1]
        ELSE IF tra THEN [ok |-> TRUE, entries |-> e1 \o <<Entry("translation", index, 0, c1, t)>>,
                          cursor |-> t.cursor]
        ELSE [ok |-> TRUE, entries |-> e1, cursor |-> c1]

\* the loop body writing the translation before the rotation
AnimatedBoneBody_translation_first(c, hdr, sample, index, cur) ==
    LET bone == c.bones[index]
        rot == is_animated(bone.rotation_track)
        tra == is_animated(bone.translation_track)
        t == write_translation(hdr.translation_format, get_sample(c, index), cur)
        e1 == IF tra THEN <<Entry("translation", index, sample, cur, t)>> ELSE <<>>
        c1 == IF tra THEN t.cursor ELSE cur
        r == write_rotation(hdr.rotation_format, get_sample(c, index), c1)
    IN  IF tra /\ ~t.ok THEN [ok |-> FALSE, entries |-> <<>>, cursor |-> cur]
        ELSE IF rot /\ ~r.ok THEN [ok |-> FALSE, entries |-> e1, cursor |-> c1]
        ELSE IF rot THEN [ok |-> TRUE, entries |-> e1 \o <<Entry("rotation", index, sample, c1, r)>>,
                          cursor |-> r.cursor]
        ELSE [ok |-> TRUE, entries |-> e1, cursor |-> c1]

\* One bone of one sample of write_animated_track_data, up to the overrun check.
AnimatedBoneBody(c, hdr, sample, index, cur) ==
    LET bone == c.bones[index]
        rot == is_animated(bone.rotation_track)
        tra == is_animated(bone.translation_track)
        r == write_rotation(hdr.rotation_format, get_sample(c, index), cur)
        e1 == IF rot THEN <<Entry("rotation", index, sample, cur, r)>> ELSE <<>>
        c1 == IF rot THEN r.cursor ELSE cur
        t == write_translation(hdr.translation_format, get_sample(c, index), c1)
    IN  IF rot /\ ~r.ok THEN [ok |-> FALSE, entries |-> <<>>, cursor |-> cur]
        ELSE IF tra /\ ~t.ok THEN [ok |-> FALSE, entries |-> e1, cursor |-> c1]
        ELSE IF tra THEN [ok |-> TRUE, entries |-> e1 \o <<Entry("translation", index, sample, c1, t)>>,
                          cursor |-> t.cursor]
        ELSE [ok |-> TRUE, entries |-> e1, cursor |-> c1]

\* -------------------------------------------------------------- planner
ConstantDataSize(counts, rotation_size, translation_size) ==
    (rotation_size * counts.num_constant_rotation_tracks)
        + (translation_size * counts.num_constant_translation_tracks)

\* animated_data_size, then animated_data_size *= num_samples, in uint32_t
AnimatedDataSize(counts, rotation_size, translation_size, num_samples) ==
    U32Mul((rotation_size * counts.num_animated_rotation_tracks)
               + (translation_size * counts.num_animated_translation_tracks),
           num_samples)

BitsetSize(num_bones) ==
    ((num_bones * NUM_TRACKS_PER_BONE) + BITSET_WIDTH - 1) \div BITSET_WIDTH

BufferSize(bitset_size, constant_data_size, animated_data_size) ==
    LET b1 == 0 + TagSize
        b2 == b1 + HeaderSize
        b3 == b2 + (WordBytes * bitset_size)
        b4 == b3 + (WordBytes * bitset_size)
        b5 == b4 + constant_data_size
        b6 == align_to(b5, 4)
    IN  U32Add(WFromNat(b6), animated_data_size)

\* the offsets with the alignment of the animated data left out
HeaderOffsets_unaligned(bitset_size, constant_data_size) ==
    [default_tracks_bitset_offset |-> HeaderSize,
     constant_tracks_bitset_offset |-> HeaderSize + (WordBytes * bitset_size),
     constant_track_data_offset |-> HeaderSize + (2 * WordBytes * bitset_size),
     track_data_offset |-> HeaderSize + (2 * WordBytes * bitset_size) + constant_data_size]

HeaderOffsets(bitset_size, constant_data_size) ==
    LET default_tracks_bitset_offset == HeaderSize
        constant_tracks_bitset_offset == default_tracks_bitset_offset + (WordBytes * bitset_size)
        constant_track_data_offset == constant_tracks_bitset_offset + (WordBytes * bitset_size)
    IN  [default_tracks_bitset_offset |-> default_tracks_bitset_offset,
         constant_tracks_bitset_offset |-> constant_tracks_bitset_offset,
         constant_track_data_offset |-> constant_track_data_offset,
         track_data_offset |-> align_to(constant_track_data_offset + constant_data_size, 4)]

\* the header follows the tag; a region starts at the header plus its offset
HeaderStart == TagSize
get_default_tracks_bitset(hdr) == HeaderStart + hdr.default_tracks_bitset_offset
get_constant_tracks_bitset(hdr) == HeaderStart + hdr.constant_tracks_bitset_offset
get_constant_track_data(hdr) == HeaderStart + hdr.constant_track_data_offset
get_track_data(hdr) == HeaderStart + hdr.track_data_offset

\* -------------------------------------------------------------- actions
NoPlan ==
    [counts |-> NoCounts, rotation_size |-> 0, translation_size |-> 0,
     constant_data_size |-> 0, animated_data_size |-> WFromNat(0),
     bitset_size |-> 0, buffer_size |-> WFromNat(0)]

NoHeader ==
    [num_bones |-> 0, rotation_format |-> "Quat_128", translation_format |-> "Vector3_96",
     num_samples |-> WFromNat(0),
     num_animated_rotation_tracks |-> 0, num_animated_translation_tracks |-> 0,
     default_tracks_bitset_offset |-> 0, constant_tracks_bitset_offset |-> 0,
     constant_track_data_offset |-> 0, track_data_offset |-> 0]

Init ==
    /\ clip \in Clips
    /\ rotation_format \in RotationFormat8
    /\ translation_format \in VectorFormat8
    /\ pc = "compress_clip"
    /\ plan = NoPlan
    /\ header = NoHeader
    /\ default_tracks_bitset = << >>
    /\ constant_tracks_bitset = << >>
    /\ constant_data = << >>
    /\ animated_data = << >>
    /\ cursor = 0
    /\ bone_index = 0
    /\ sample_index = 0
    /\ violation = "none"
    /\ finalized = FALSE

\* compress_clip up to the first writer: classify, size, allocate, fill the
\* header.  The allocated bytes are uninitialized: every word of the two
\* bitset regions holds all zeros or all ones.
Plan ==
    /\ pc = "compress_clip"
    /\ LET num_bones == get_num_bones(clip)
           counts == get_num_animated_tracks(clip)
           rotation_size == get_rotation_size(rotation_format)
           translation_size == get_translation_size(translation_format)
           constant_data_size == ConstantDataSize(counts, rotation_size, translation_size)
           animated_data_size ==
               AnimatedDataSize(counts, rotation_size, translation_size, clip.num_samples)
           bitset_size == BitsetSize(num_bones)
           buffer_size == BufferSize(bitset_size, constant_data_size, animated_data_size)
       IN  /\ plan' = [counts |-> counts, rotation_size |-> rotation_size,
                       translation_size |-> translation_size,
                       constant_data_size |-> constant_data_size,
                       animated_data_size |-> animated_data_size,
                       bitset_size |-> bitset_size, buffer_size |-> buffer_size]
           /\ header' = [num_bones |-> num_bones, rotation_format |-> rotation_format,
                         translation_format |-> translation_format,
                         num_samples |-> clip.num_samples,
                         num_animated_rotation_tracks |-> counts.num_animated_rotation_tracks,
                         num_animated_translation_tracks |-> counts.num_animated_translation_tracks]
                        @@ HeaderOffsets(bitset_size, constant_data_size)
           /\ \E garbage \in {{}, 0..(BITSET_WIDTH - 1)} :
                 /\ default_tracks_bitset' = [w \in BitsetWords(bitset_size) |-> garbage]
                 /\ constant_tracks_bitset' = [w \in BitsetWords(bitset_size) |-> garbage]
    /\ pc' = "write_default_track_bitset"
    /\ UNCHANGED <<inputs, constant_data, animated_data, cursor, bone_index, sample_index,
                   violation, finalized>>

WriteDefaultTrackBitset ==
    /\ pc = "write_default_track_bitset"
    /\ default_tracks_bitset' =
           write_default_track_bitset(default_tracks_bitset, clip, plan.bitset_size)
    /\ pc' = "write_constant_track_bitset"
    /\ UNCHANGED <<inputs, plan, header, constant_tracks_bitset, constant_data, animated_data,
                   cursor, bone_index, sample_index, violation, finalized>>

\* the constant bitset, then the entry of write_constant_track_data
WriteConstantTrackBitset ==
    /\ pc = "write_constant_track_bitset"
    /\ constant_tracks_bitset' =
           write_constant_track_bitset(constant_tracks_bitset, clip, plan.bitset_size)
    /\ pc' = "write_constant_track_data"
    /\ cursor' = get_constant_track_data(header)
    /\ bone_index' = 0
    /\ UNCHANGED <<inputs, plan, header, default_tracks_bitset, constant_data, animated_data,
                   sample_index, violation, finalized>>

ConstantDataEnd == get_constant_track_data(header) + plan.constant_data_size

\* pointers are wider than 32 bits: the end of the region does not wrap
AnimatedDataEnd == WAdd(WFromNat(get_track_data(header)), plan.animated_data_size)

\* one iteration of the bone loop of write_constant_track_data
ConstantDataBone ==
    /\ pc = "write_constant_track_data"
    /\ bone_index < header.num_bones
    /\ LET w == ConstantBoneBody(clip, header, bone_index, cursor)
       IN  /\ constant_data' = constant_data \o w.entries
           /\ cursor' = w.cursor
           /\ IF ~w.ok
              THEN /\ violation' = "quantize"
                   /\ pc' = "failed"
                   /\ UNCHANGED bone_index
              ELSE IF ~(w.cursor <= ConstantDataEnd)
              THEN /\ violation' = "overrun"
                   /\ pc' = "failed"
                   /\ UNCHANGED bone_index
              ELSE /\ bone_index' = bone_index + 1
                   /\ UNCHANGED <<pc, violation>>
    /\ UNCHANGED <<inputs, plan, header, default_tracks_bitset, constant_tracks_bitset,
                   animated_data, sample_index, finalized>>

\* the check after the loop, then the entry of write_animated_track_data
ConstantDataDone ==
    /\ pc = "write_constant_track_data"
    /\ ~(bone_index < header.num_bones)
    /\ IF cursor = ConstantDataEnd
       THEN /\ pc' = "write_animated_track_data"
            /\ cursor' = get_track_data(header)
            /\ bone_index' = 0
            /\ sample_index' = 0
            /\ UNCHANGED violation
       ELSE /\ pc' = "failed"
            /\ violation' = "underrun"
            /\ UNCHANGED <<cursor, bone_index, sample_index>>
    /\ UNCHANGED <<inputs, plan, header, default_tracks_bitset, constant_tracks_bitset,
                   constant_data, animated_data, finalized>>

SampleLoopRuns ==
    /\ WLeq(WFromNat(sample_index + 1), header.num_samples)
    /\ sample_index < MaxLoopSamples

\* one iteration of the bone loop of write_animated_track_data
AnimatedDataBone ==
    /\ pc = "write_animated_track_data"
    /\ SampleLoopRuns
    /\ bone_index < header.num_bones
    /\ LET w == AnimatedBoneBody(clip, header, sample_index, bone_index, cursor)
       IN  /\ animated_data' = animated_data \o w.entries
           /\ cursor' = w.cursor
           /\ IF ~w.ok
              THEN /\ violation' = "quantize"
                   /\ pc' = "failed"
                   /\ UNCHANGED bone_index
              ELSE IF ~WLeq(WFromNat(w.cursor), AnimatedDataEnd)
              THEN /\ violation' = "overrun"
                   /\ pc' = "failed"
                   /\ UNCHANGED bone_index
              ELSE /\ bone_index' = bone_index + 1
                   /\ UNCHANGED <<pc, violation>>
    /\ UNCHANGED <<inputs, plan, header, default_tracks_bitset, constant_tracks_bitset,
                   constant_data, sample_index, finalized>>

\* the bone loop ends: the next iteration of the sample loop
AnimatedDataNextSample ==
    /\ pc = "write_animated_track_data"
    /\ SampleLoopRuns
    /\ ~(bone_index < header.num_bones)
    /\ sample_index' = sample_index + 1
    /\ bone_index' = 0
    /\ UNCHANGED <<inputs, plan, header, default_tracks_bitset, constant_tracks_bitset,
                   constant_data, animated_data, cursor, pc, violation, finalized>>

\* the check after the loops
AnimatedDataDone ==
    /\ pc = "write_animated_track_data"
    /\ ~WLeq(WFromNat(sample_index + 1), header.num_samples)
    /\ IF WFromNat(cursor) = AnimatedDataEnd
       THEN /\ pc' = "finalize_compressed_clip"
            /\ UNCHANGED violation
       ELSE /\ pc' = "failed"
            /\ violation' = "underrun"
    /\ UNCHANGED <<inputs, plan, header, default_tracks_bitset, constant_tracks_bitset,
                   constant_data, animated_data, cursor, bone_index, sample_index, finalized>>

\* finalize_compressed_clip, then return compressed_clip
FinalizeAndReturn ==
    /\ pc = "finalize_compressed_clip"
    /\ finalized' = TRUE
    /\ pc' = "returned"
    /\ UNCHANGED <<inputs, plan, header, default_tracks_bitset, constant_tracks_bitset,
                   constant_data, animated_data, cursor, bone_index, sample_index, violation>>

Next ==
    \/ Plan
    \/ WriteDefaultTrackBitset
    \/ WriteConstantTrackBitset
    \/ ConstantDataBone
    \/ ConstantDataDone
    \/ AnimatedDataBone
    \/ AnimatedDataNextSample
    \/ AnimatedDataDone
    \/ FinalizeAndReturn

Spec == Init /\ [][Next]_vars

\* compress_clip up to the call of write_constant_track_data: the planning,
\* the header and the two bitsets
NextLayout ==
    \/ Plan
    \/ WriteDefaultTrackBitset
    \/ WriteConstantTrackBitset

SpecLayout == Init /\ [][NextLayout]_vars

\* ----------------------------------------------------- claims: helpers
Planned == pc # "compress_clip"

DefaultBitsetWritten ==
    pc \notin {"compress_clip", "write_default_track_bitset"}

BitsetsWritten ==
    pc \notin {"compress_clip", "write_default_track_bitset", "write_constant_track_bitset"}

ConstantDataWritten ==
    pc \in {"write_animated_track_data", "finalize_compressed_clip", "returned"}

AnimatedDataWritten == pc \in {"finalize_compressed_clip", "returned"}

RECURSIVE BytesOf(_)
BytesOf(entries) ==
    IF entries = << >> THEN 0 ELSE Head(entries).size + BytesOf(Tail(entries))

Bones == DOMAIN clip.bones

TrackOf(index, kind) ==
    IF kind = "rotation" THEN clip.bones[index].rotation_track
    ELSE clip.bones[index].translation_track

\* the bit of a track in either bitset: rotation bit, then translation bit
TrackBit(index, kind) == (2 * index) + (IF kind = "rotation" THEN 0 ELSE 1)

Kinds == {"rotation", "translation"}

\* ceil(2 * bone_count / 32): the least k with 32 * k >= 2 * bone_count
BitsetWordCount ==
    LET bits == 2 * Cardinality(Bones)
    IN  CHOOSE k \in 0..bits : 32 * k >= bits /\ 32 * (k - 1) < bits

ConstantBytes ==
    (get_rotation_size(rotation_format) * plan.counts.num_constant_rotation_tracks)
        + (get_translation_size(translation_format) * plan.counts.num_constant_translation_tracks)

AnimatedBytesPerSample ==
    (get_rotation_size(rotation_format) * plan.counts.num_animated_rotation_tracks)
        + (get_translation_size(translation_format) * plan.counts.num_animated_translation_tracks)

\* the planning formula's animated_bytes, as the exact number
AnimatedBytes == WMulNat(AnimatedBytesPerSample, clip.num_samples)

\* --------------------------------------------------------------- claims

\* C1: the buffer size compress_clip allocates equals
\* align4(sizeof(tag) + sizeof(header) + 2 * bitset_word_count * 4 + constant_bytes)
\* + animated_bytes, the round-up applied before animated_bytes is added.
C1_BufferSizeFormula ==
    Planned =>
        plan.buffer_size =
            WAdd(WFromNat(align_to(TagSize + HeaderSize + (2 * BitsetWordCount * 4)
                                       + ConstantBytes, 4)),
                 AnimatedBytes)

\* C2 as stated: the four offsets of the header are absolute offsets from the
\* start of the buffer, the default bitset at sizeof(tag) + sizeof(header),
\* each next region at the previous offset plus the previous region's size,
\* the animated data at the 4-byte round-up of the end of the constant data.
C2_OffsetsFromBufferStart ==
    Planned =>
      LET words == BitsetWordCount IN
        /\ header.default_tracks_bitset_offset = TagSize + HeaderSize
        /\ header.constant_tracks_bitset_offset
               = header.default_tracks_bitset_offset + (4 * words)
        /\ header.constant_track_data_offset
               = header.constant_tracks_bitset_offset + (4 * words)
        /\ header.track_data_offset % 4 = 0
        /\ header.track_data_offset >= header.constant_track_data_offset + ConstantBytes
        /\ header.track_data_offset < header.constant_track_data_offset + ConstantBytes + 4

\* C2 amended: the four offsets are offsets from the start of the header: the
\* default bitset at sizeof(header), each next region at the previous offset
\* plus the previous region's size, the animated data at the least multiple
\* of 4 not below the end of the constant data.
C2_OffsetsFromHeaderStart ==
    Planned =>
      LET words == BitsetWordCount IN
        /\ header.default_tracks_bitset_offset = HeaderSize
        /\ header.constant_tracks_bitset_offset
               = header.default_tracks_bitset_offset + (4 * words)
        /\ header.constant_track_data_offset
               = header.constant_tracks_bitset_offset + (4 * words)
        /\ header.track_data_offset % 4 = 0
        /\ header.track_data_offset >= header.constant_track_data_offset + ConstantBytes
        /\ header.track_data_offset < header.constant_track_data_offset + ConstantBytes + 4

C2_Witness ==
    /\ Planned
    /\ ConstantBytes % 4 = 2
    /\ header.track_data_offset = header.constant_track_data_offset + ConstantBytes + 2

\* C3: each data writer writes exactly the planned number of bytes: its cursor
\* never passes the end of its region during the loop, is at the end after the
\* loop, and neither the overrun nor the underrun check fires.
C3_WritersMatchPlan ==
    /\ pc = "write_constant_track_data" => cursor <= ConstantDataEnd
    /\ pc = "write_animated_track_data" => WLeq(WFromNat(cursor), AnimatedDataEnd)
    /\ violation \notin {"overrun", "underrun"}
    /\ ConstantDataWritten => BytesOf(constant_data) = plan.constant_data_size
    /\ AnimatedDataWritten => WFromNat(BytesOf(animated_data)) = plan.animated_data_size

\* C4: once both bitsets are written no bit is set in both; a track whose
\* default bit is set has no bytes in the constant payload; the tracks written
\* to the animated payload are exactly the tracks absent from both bitsets.
C4_BitsetsDisjoint ==
    BitsetsWritten =>
        /\ \A i \in 0..((2 * Cardinality(Bones)) - 1) :
              ~(bitset_test(default_tracks_bitset, i) /\ bitset_test(constant_tracks_bitset, i))
        /\ \A n \in 1..Len(constant_data) :
              ~bitset_test(default_tracks_bitset,
                           TrackBit(constant_data[n].bone, constant_data[n].kind))
        /\ \A n \in 1..Len(animated_data) :
              LET bit == TrackBit(animated_data[n].bone, animated_data[n].kind)
              IN  /\ ~bitset_test(default_tracks_bitset, bit)
                  /\ ~bitset_test(constant_tracks_bitset, bit)
        /\ AnimatedDataWritten =>
              \A b \in Bones, k \in Kinds, s \in 0..MaxLoopSamples :
                  (/\ WLeq(WFromNat(s + 1), clip.num_samples)
                   /\ ~bitset_test(default_tracks_bitset, TrackBit(b, k))
                   /\ ~bitset_test(constant_tracks_bitset, TrackBit(b, k)))
                  => \E n \in 1..Len(animated_data) :
                        /\ animated_data[n].bone = b
                        /\ animated_data[n].kind = k
                        /\ animated_data[n].sample = s

C4_Witness ==
    /\ pc = "returned"
    /\ constant_data # << >>
    /\ animated_data # << >>
    /\ \E i \in 0..((2 * Cardinality(Bones)) - 1) : bitset_test(default_tracks_bitset, i)

\* C5: the animated payload is sample-major and bone-minor: the bytes of an
\* earlier sample lie below the bytes of a later sample whatever the bones,
\* within a sample the bones appear in increasing index, and within a bone
\* the rotation sample precedes the translation sample.
C5_AnimatedOrder ==
    \A m, n \in 1..Len(animated_data) :
        LET e == animated_data[m]
            f == animated_data[n]
            Before == e.offset + e.size <= f.offset
        IN  /\ e.sample < f.sample => Before
            /\ (e.sample = f.sample /\ e.bone < f.bone) => Before
            /\ (e.sample = f.sample /\ e.bone = f.bone
                    /\ e.kind = "rotation" /\ f.kind = "translation") => Before
            /\ e.offset >= get_track_data(header)

C5_Witness ==
    /\ pc = "returned"
    /\ \E m, n, o \in 1..Len(animated_data) :
          /\ animated_data[m].sample = 0 /\ animated_data[m].bone = 1
          /\ animated_data[n].sample = 1 /\ animated_data[n].bone = 0
          /\ animated_data[n].kind = "rotation"
          /\ animated_data[o].sample = 1 /\ animated_data[o].bone = 0
          /\ animated_data[o].kind = "translation"

\* C6: per kind every track is exactly one of default, constant, animated, the
\* classifier counts each track in at most one counter, and the default
\* tracks plus the returned constant count plus the returned animated count
\* are bone_count.
C6_ClassifierCounts ==
    Planned =>
        LET Of(k, p(_)) == Cardinality({b \in Bones : p(TrackOf(b, k))})
            Sum(k) == (IF k = "rotation"
                       THEN plan.counts.num_constant_rotation_tracks
                                + plan.counts.num_animated_rotation_tracks
                       ELSE plan.counts.num_constant_translation_tracks
                                + plan.counts.num_animated_translation_tracks)
        IN  /\ \A b \in Bones, k \in Kinds :
                  Cardinality({c \in TrackClass :
                      \/ c = "default" /\ is_default(TrackOf(b, k))
                      \/ c = "constant" /\ is_constant(TrackOf(b, k))
                      \/ c = "animated" /\ is_animated(TrackOf(b, k))}) = 1
            /\ \A k \in Kinds : Of(k, is_default) + Sum(k) = Cardinality(Bones)
            /\ plan.counts.num_constant_rotation_tracks = Of("rotation", is_constant)
            /\ plan.counts.num_animated_rotation_tracks = Of("rotation", is_animated)
            /\ plan.counts.num_constant_translation_tracks = Of("translation", is_constant)
            /\ plan.counts.num_animated_translation_tracks = Of("translation", is_animated)

C6_Witness ==
    /\ pc = "write_default_track_bitset"
    /\ Cardinality(Bones) = 2
    /\ \E b \in Bones : is_default(TrackOf(b, "rotation"))
    /\ plan.counts.num_constant_rotation_tracks = 1
    /\ plan.counts.num_animated_translation_tracks = 2

Quantized(kind) ==
    IF kind = "rotation" THEN rotation_format \in {"Quat_48", "Quat_32"}
    ELSE translation_format = "Vector3_48"

\* C7: compress_clip returns a fully populated, finalized buffer or reports a
\* contract violation, never both: a failed check ends the encode where it
\* is, no later region is written, the buffer is not finalized and not returned.
C7_ReturnOrViolation ==
    /\ pc = "returned" =>
          /\ finalized
          /\ violation = "none"
          /\ BytesOf(constant_data) = plan.constant_data_size
          /\ WFromNat(BytesOf(animated_data)) = plan.animated_data_size
          /\ \A n \in 1..Len(constant_data) :
                Quantized(constant_data[n].kind)
                    => get_sample(clip, constant_data[n].bone) \in -1..1
          /\ \A n \in 1..Len(animated_data) :
                Quantized(animated_data[n].kind)
                    => get_sample(clip, animated_data[n].bone) \in -1..1
    /\ finalized => pc = "returned"
    /\ violation # "none" <=> pc = "failed"
    /\ pc = "failed" =>
          /\ ~finalized
          /\ ~ENABLED Next
          /\ BytesOf(constant_data) # plan.constant_data_size => animated_data = << >>

C7_Witness ==
    /\ pc = "failed"
    /\ violation = "quantize"
    /\ constant_data # << >>
    /\ animated_data # << >>

\* C8: each bitset writer leaves ceil(2 * bone_count / 32) words in which bit
\* 2b is the rotation track's predicate and bit 2b + 1 the translation
\* track's, and every bit from 2 * bone_count on is zero, whatever the words
\* held before.
C8_BitsetContents ==
    LET words == BitsetWordCount
        Right(bitset, p(_)) ==
            /\ DOMAIN bitset = 0..(words - 1)
            /\ \A b \in Bones :
                  /\ bitset_test(bitset, 2 * b) <=> p(TrackOf(b, "rotation"))
                  /\ bitset_test(bitset, (2 * b) + 1) <=> p(TrackOf(b, "translation"))
            /\ \A i \in (2 * Cardinality(Bones))..((32 * words) - 1) :
                  ~bitset_test(bitset, i)
    IN  /\ DefaultBitsetWritten => Right(default_tracks_bitset, is_default)
        /\ BitsetsWritten => Right(constant_tracks_bitset, is_constant)

C8_Witness ==
    /\ pc = "write_constant_track_bitset"
    /\ BitsetWordCount = 2
    /\ constant_tracks_bitset[1] = 0..31
    /\ \E b \in Bones : bitset_test(default_tracks_bitset, 2 * b)

\* C9: the four regions lie in the order default bitset, constant bitset,
\* constant data, animated data, each ending at or before the start of the
\* next, and all inside the allocated buffer: the end of the animated region,
\* sizeof(tag) + track_data_offset + animated_bytes, does not exceed total_size.
C9_RegionsInsideBuffer ==
    Planned =>
        /\ TagSize + HeaderSize <= get_default_tracks_bitset(header)
        /\ get_default_tracks_bitset(header) + (4 * plan.bitset_size)
               <= get_constant_tracks_bitset(header)
        /\ get_constant_tracks_bitset(header) + (4 * plan.bitset_size)
               <= get_constant_track_data(header)
        /\ get_constant_track_data(header) + plan.constant_data_size <= get_track_data(header)
        /\ WLeq(WAdd(WFromNat(TagSize + header.track_data_offset), plan.animated_data_size),
                plan.buffer_size)

\* C10: the uint32_t computations of animated_data_size and of buffer_size do
\* not wrap: the allocated size is the exact value of the planning formula
\* and is not smaller than the number of bytes the animated writer writes.
C10_NoWrap ==
    Planned =>
        /\ plan.animated_data_size = AnimatedBytes
        /\ plan.buffer_size
               = WAdd(WFromNat(align_to(TagSize + HeaderSize + (2 * plan.bitset_size * 4)
                                            + plan.constant_data_size, 4)),
                      plan.animated_data_size)
        /\ WLeq(AnimatedBytes, plan.buffer_size)

====
